---- MODULE Spec2Model ----
(***************************************************************************)
(* A model of project-indexer (scripts/index_project.py, utils/meta.py,    *)
(* parsers/base.py, parsers/python_parser.py): the chunk writer, the       *)
(* metadata store, the parser registry, the Python parser's definition     *)
(* scan and the indexing runs of main().                                   *)
(*                                                                         *)
(* Text is a sequence of tokens.  A token is either the newline NL or a    *)
(* piece: n consecutive characters, none of them a newline, named by id    *)
(* and k.  Two texts are equal exactly when their token sequences are, so  *)
(* lengths are the real lengths and MAX_CHARS_PER_FILE keeps its value.    *)
(***************************************************************************)
EXTENDS Integers, Sequences, FiniteSets, TLC

VARIABLES
    fs,             \* the project's files on disk: path -> [mtime, size, readable]
    meta,           \* <index>/.index-meta.json: [state, files]
    data,           \* MetaManager.data.files of the live manager (a dict)
    pc,             \* position of main(): "idle", "dirs" (loop head), "record"
    update,         \* args.update of the current run
    force,          \* args.force of the current run
    files_by_dir,   \* what collect_files returned to the current run
    todo,           \* directories the for loop of main() has still to visit
    content,        \* the text handed to write_chunked_index
    base_name,      \* its base_name argument (safe_name in main)
    written_files,  \* the list write_chunked_index returned
    artifacts,      \* the files under <index>/directories: path -> text
    nav,            \* the artifacts INDEX.md lists under Navigation
    failed,         \* history: files whose read failed in the current run
    skipped,        \* history: directories the current run did not process
    recorded,       \* history: path -> the (mtime, size) on disk when
                    \*   update_file_record last stored a record for it (in
                    \*   the search harness: the symbol sets recorded for it)
    ret,            \* the last MetaManager call of the store harness
    runs,           \* runs started so far
    envs,           \* changes made to the project's files so far
    readback,       \* a reader's reassembly of written_files
    cpc,            \* position of the chunk-writer harness
    parsers,        \* ParserRegistry._parsers
    source,         \* the Python source given to the parser, as its lines
    entries,        \* the SearchEntry rows of the store: [path, symbol]
    passes          \* history: directory -> what the current run's pass over
                    \*   it wrote (the artifacts) and read (each file's
                    \*   (mtime, size) when generate_directory_index read it)

runVars == <<meta, pc, update, force, files_by_dir, todo, nav, failed, skipped,
            runs>>

chunkVars == <<content, base_name, written_files, artifacts>>

vars == <<fs, meta, data, pc, update, force, files_by_dir, todo, content,
          base_name, written_files, artifacts, nav, failed, skipped, recorded, ret,
          runs, envs, readback, cpc, parsers, source, entries, passes>>

\* ------------------------------------------------------------------ bounds
MaxLines == 4   \* lines of an arbitrary content given to the chunk writer
MaxTime == 2    \* modification times are 1..MaxTime
MaxRuns == 2    \* runs of main() in one behaviour
MaxEnv == 1     \* changes to the project's files in one behaviour
MaxParsers == 3 \* parsers registered at one time in the registry harness
MaxSrcLines == 3 \* lines of a Python source given to the parser
MaxCalls == 2   \* recordFile calls for one path in the search harness

\* ------------------------------------------------------ program constants
MAX_CHARS_PER_FILE == 32000

\* -------------------------------------------------------------------- text
NL == [id |-> <<"\n">>, k |-> 0, n |-> 1]

Piece(name, len) == [id |-> <<name>>, k |-> 0, n |-> len]

\* A line holding one piece, or the empty line when len = 0.
Line(name, len) == IF len = 0 THEN <<>> ELSE <<Piece(name, len)>>

\* len(text)
RECURSIVE TextLen(_)
TextLen(text) ==
    IF text = <<>> THEN 0 ELSE Head(text).n + TextLen(Tail(text))

\* text.split("\n"): always at least one line
RECURSIVE SplitFrom(_, _, _)
SplitFrom(text, cur, acc) ==
    IF text = <<>> THEN Append(acc, cur)
    ELSE IF Head(text) = NL
         THEN SplitFrom(Tail(text), <<>>, Append(acc, cur))
         ELSE SplitFrom(Tail(text), Append(cur, Head(text)), acc)

Split(text) == SplitFrom(text, <<>>, <<>>)

\* "\n".join(lines)
RECURSIVE Join(_)
Join(lines) ==
    IF lines = <<>> THEN <<>>
    ELSE IF Len(lines) = 1 THEN lines[1]
    ELSE lines[1] \o <<NL>> \o Join(Tail(lines))

\* Decimal digits of a positive part number (str(i)).
RECURSIVE Digits(_)
Digits(i) == IF i < 10 THEN 1 ELSE 1 + Digits(i \div 10)

\* ------------------------------------------------------------ chunk writer
\* A dict (and a directory of files) is a function on the keys it holds.
Put(d, key, v) ==
    [x \in DOMAIN d \cup {key} |-> IF x = key THEN v ELSE d[x]]

Del(d, key) == [x \in DOMAIN d \ {key} |-> d[x]]

EmptyDict == [x \in {} |-> 0]

\* output_dir / f"{base_name}.md" (part = 0) or f"{base_name}_part{i}.md",
\* relative to output_dir.parent
ArtifactPath(base, part) == [base |-> base, part |-> part]

\* f"# {base_name} (Part {i})\n\n"
PartMarker(base, i) ==
    << [id |-> <<"# ", base, " (Part i)">>, k |-> i,
        n |-> 2 + Len(base) + 7 + Digits(i) + 1], NL, NL >>

\* The for loop over content.split("\n") with its final flush.
RECURSIVE ChunkLoop(_, _, _, _)
ChunkLoop(lines, chunks, current_chunk, current_size) ==
    IF lines = <<>>
    THEN IF current_chunk # <<>>
         THEN Append(chunks, Join(current_chunk))
         ELSE chunks
    ELSE LET line == Head(lines)
             line_size == TextLen(line) + 1
         IN  IF current_size + line_size > MAX_CHARS_PER_FILE
                /\ current_chunk # <<>>
             THEN ChunkLoop(Tail(lines),
                            Append(chunks, Join(current_chunk)),
                            <<line>>, line_size)
             ELSE ChunkLoop(Tail(lines), chunks,
                            Append(current_chunk, line),
                            current_size + line_size)

SplitIntoChunks(text) == ChunkLoop(Split(text), <<>>, <<>>, 0)

ChunkText_MarkAll(chunk, base, i) == PartMarker(base, i) \o chunk

\* What is written for chunk i of the else branch.
ChunkText(chunk, base, i) ==
    IF i > 1 THEN PartMarker(base, i) \o chunk ELSE chunk

\* write_chunked_index: the files it writes, in the order it writes them.
WriteChunkedIndex(text, base) ==
    IF TextLen(text) <= MAX_CHARS_PER_FILE
    THEN << [path |-> ArtifactPath(base, 0), text |-> text] >>
    ELSE LET chunks == SplitIntoChunks(text)
         IN  [i \in 1..Len(chunks) |->
                 [path |-> ArtifactPath(base, i),
                  text |-> ChunkText(chunks[i], base, i)]]

\* The directory after the writes (a later write to a path replaces it).
RECURSIVE WriteAll(_, _)
WriteAll(files, written) ==
    IF written = <<>> THEN files
    ELSE WriteAll(Put(files, Head(written).path, Head(written).text),
                  Tail(written))

WrittenPaths(written) == [i \in 1..Len(written) |-> written[i].path]

\* ------------------------------------------------- a reader of the chunks
StripMarker(text, base, i) ==
    LET m == PartMarker(base, i)
    IN  IF Len(text) >= Len(m) /\ SubSeq(text, 1, Len(m)) = m
        THEN SubSeq(text, Len(m) + 1, Len(text))
        ELSE text

\* Concatenate the listed artifacts in order, dropping the part marker of
\* every artifact after the first.
RECURSIVE Reassemble(_, _, _)
Reassemble(paths, files, i) ==
    IF i > Len(paths) THEN <<>>
    ELSE (IF i = 1 THEN files[paths[i]]
          ELSE StripMarker(files[paths[i]], paths[i].base, paths[i].part))
         \o Reassemble(paths, files, i + 1)

\* "---", the line that ends a file's block in a directory report
Separator == Line("-", 3)

\* ------------------------------------------------------- the source tree
\* The project's files, in the order os.walk lists them.  Each has a
\* directory (relative to the root, "" for the root), a name and a suffix.
Listing == <<"B.py", "a.py", "pkg/c.ts">>

Paths == {Listing[i] : i \in 1..Len(Listing)}

RelDir(p) == IF p = "pkg/c.ts" THEN "pkg" ELSE ""

Name(p) == IF p = "pkg/c.ts" THEN "c.ts" ELSE p

\* Path(p).suffix, also for the other file names a directory may hold
Suffix(p) ==
    CASE p = "pkg/c.ts" -> ".ts"
      [] p = "X.PY" -> ".PY"
      [] p = "notes.txt" -> ".txt"
      [] p = "Makefile" -> ""
      [] OTHER -> ".py"

\* str.lower() on the names and suffixes above
Lower(s) ==
    CASE s = "B.py" -> "b.py"
      [] s = ".PY" -> ".py"
      [] OTHER -> s

\* The order of str comparison on the lowered names.
StrRank(s) == CASE s = "a.py" -> 1 [] s = "b.py" -> 2 [] s = "c.ts" -> 3

\* Directories in the order os.walk visits them.
WalkDirs == <<"", "pkg">>

\* A file on disk: [mtime, size, readable].  Its text is fixed by its size:
\* the two sample sources below.
Times == 1..MaxTime

Sizes == {64, 20480}

\* ----------------------------------------------------------- parsers/base
\* ParserRegistry._parsers after the two register() calls of
\* index_project.py, with each parser's extensions and language_name.
Parsers ==
    << [language_name |-> "TypeScript/JavaScript",
        extensions |-> {".ts", ".tsx", ".js", ".jsx", ".mjs", ".cjs"}],
       [language_name |-> "Python",
        extensions |-> {".py", ".pyi"}] >>

NoParser == [language_name |-> "", extensions |-> {}]

\* BaseParser.can_parse
CanParse(parser, p) == Lower(Suffix(p)) \in parser.extensions

\* ParserRegistry.get_parser: the first registered parser that can parse
RECURSIVE FirstParser_Last(_, _)
FirstParser_Last(registry, p) ==
    IF registry = <<>> THEN NoParser
    ELSE IF CanParse(registry[Len(registry)], p) THEN registry[Len(registry)]
    ELSE FirstParser_Last(SubSeq(registry, 1, Len(registry) - 1), p)

RECURSIVE FirstParser(_, _)
FirstParser(registry, p) ==
    IF registry = <<>> THEN NoParser
    ELSE IF CanParse(Head(registry), p) THEN Head(registry)
    ELSE FirstParser(Tail(registry), p)

GetParser(p) == FirstParser(Parsers, p)

\* parser.parse on the two sample sources: the 64-byte source defines one
\* function and imports os, the 20480-byte one defines four symbols whose
\* signatures are 5000 characters each.
Parse(size) ==
    IF size = 64
    THEN [exports |-> <<Piece("def f(a, b)", 11)>>, imports |-> <<"os">>]
    ELSE [exports |-> [i \in 1..4 |-> [id |-> <<"def g">>, k |-> i, n |-> 5000]],
          imports |-> <<>>]

\* ", ".join(f"`{imp}`" for imp in imports)
RECURSIVE JoinedImportsLen(_)
JoinedImportsLen(imports) ==
    IF imports = <<>> THEN 0
    ELSE Len(Head(imports)) + 2
         + (IF Len(imports) > 1 THEN 2 ELSE 0)
         + JoinedImportsLen(Tail(imports))

\* BaseParser.format_markdown.  The backticks it puts around each export,
\* import and path are counted in n and left out of the piece's name.
FormatMarkdown(signature) ==
    LET exports == signature.exports
        imports == signature.imports
        shown == SubSeq(imports, 1, IF Len(imports) > 5 THEN 5 ELSE Len(imports))
        export_lines ==
            IF exports # <<>>
            THEN <<Line("**Exports**:", 12)>>
                 \o [i \in 1..Len(exports) |->
                        <<[id |-> <<"- ">> \o exports[i].id,
                           k |-> exports[i].k, n |-> exports[i].n + 4]>>]
            ELSE <<Line("_No exports detected_", 21)>>
        import_lines ==
            IF imports # <<>>
            THEN << <<>>,
                    <<[id |-> <<"**Dependencies**: ">> \o shown, k |-> 0,
                       n |-> 18 + JoinedImportsLen(shown)]>> >>
                 \o (IF Len(imports) > 5
                     THEN <<<<[id |-> <<"  _(+N more)_">>, k |-> Len(imports) - 5,
                               n |-> 12 + Digits(Len(imports) - 5)]>>>>
                     ELSE <<>>)
            ELSE <<>>
    IN  Join(export_lines \o import_lines)

\* --------------------------------------------------- parsers/python_parser
\* A source line is [indent, kind, name]: kind "class" when the class pattern
\* matches it, "def" when the function pattern does, "blank" when it is empty
\* or a comment, "stmt" otherwise; name is the \\w+ group.  Bases, parameters
\* and return types are left out (every class has no bases, every function
\* no parameters).
NoClass == ""

\* name.startswith(prefix) for the names used in the sources
StartsWith(name, prefix) ==
    CASE prefix = "_" -> name \in {"_helper", "_Hidden", "__init__", "__len__"}
      [] prefix = "__" -> name \in {"__init__", "__len__"}

\* An entry of exports: f"class {name}", sig, or f"  {sig}" for a method.
\* (The last branch, a function that is neither a method nor at
\* indentation 0, appends nothing.)
ExportEntry(marker, keyword, name) ==
    [marker |-> marker, keyword |-> keyword, name |-> name]

\* The for loop of PythonParser._extract_definitions
RECURSIVE ExtractLoop(_, _, _, _)
ExtractLoop(lines, current_class, class_indent, exports) ==
    IF lines = <<>> THEN exports
    ELSE
      LET line == Head(lines)
          left == current_class # NoClass /\ line.indent <= class_indent
          cls == IF left THEN NoClass ELSE current_class
          ind == IF left THEN 0 ELSE class_indent
      IN  IF line.kind = "blank"
          THEN ExtractLoop(Tail(lines), current_class, class_indent, exports)
          ELSE IF line.kind = "class"
          THEN IF line.indent = 0
               THEN ExtractLoop(Tail(lines), line.name, 0,
                        Append(exports, ExportEntry("", "class", line.name)))
               ELSE ExtractLoop(Tail(lines), cls, ind, exports)
          ELSE IF line.kind = "def"
          THEN IF StartsWith(line.name, "_") /\ ~StartsWith(line.name, "__")
               THEN ExtractLoop(Tail(lines), cls, ind, exports)
               ELSE IF cls # NoClass /\ line.indent > ind
               THEN ExtractLoop(Tail(lines), cls, ind,
                        Append(exports, ExportEntry("  ", "def", line.name)))
               ELSE IF line.indent = 0
               THEN ExtractLoop(Tail(lines), cls, ind,
                        Append(exports, ExportEntry("", "def", line.name)))
               ELSE ExtractLoop(Tail(lines), cls, ind, exports)
          ELSE ExtractLoop(Tail(lines), cls, ind, exports)

\* PythonParser._extract_definitions
ExtractDefinitions(lines) == ExtractLoop(lines, NoClass, 0, <<>>)

\* ------------------------------------------------------------ utils/meta
NoMetaFile == [state |-> "absent", files |-> EmptyDict]

NoCall == [op |-> "none", arg |-> {}, val |-> {}]

\* MetaManager._load: the files of the stored metadata, or a fresh
\* IndexMetadata when the file is not there or json.load raises on it
Load(m) == IF m.state = "ok" THEN m.files ELSE EmptyDict

\* MetaManager.save: asdict(self.data) dumped as JSON
Saved(files) == [state |-> "ok", files |-> files]

\* The file after open(meta_path, "w") has emptied it and json.dump has
\* written none or only a part of the JSON text: json.load cannot decode it.
Truncated == [state |-> "corrupt", files |-> EmptyDict]

ShouldReindex_MtimeOnly(disk, files, p) ==
    IF p \notin DOMAIN disk THEN FALSE
    ELSE IF p \notin DOMAIN files THEN TRUE
    ELSE files[p].mtime # disk[p].mtime

ShouldReindex_MissingTrue(disk, files, p) ==
    IF p \notin DOMAIN files THEN TRUE
    ELSE IF p \notin DOMAIN disk THEN TRUE
    ELSE files[p].mtime # disk[p].mtime \/ files[p].size # disk[p].size

\* MetaManager.should_reindex
ShouldReindex(disk, files, p) ==
    IF p \notin DOMAIN disk THEN FALSE
    ELSE IF p \notin DOMAIN files THEN TRUE
    ELSE IF files[p].mtime # disk[p].mtime \/ files[p].size # disk[p].size
         THEN TRUE
         ELSE FALSE

UpdateFileRecord_KeepFirst(disk, files, p, index_file_path) ==
    IF p \notin DOMAIN disk \/ p \in DOMAIN files THEN files
    ELSE Put(files, p, [mtime |-> disk[p].mtime, size |-> disk[p].size,
                        indexed_in |-> index_file_path, checksum |-> "None"])

\* MetaManager.update_file_record (checksum keeps its default, None)
UpdateFileRecord(disk, files, p, index_file_path) ==
    IF p \notin DOMAIN disk THEN files
    ELSE Put(files, p, [mtime |-> disk[p].mtime, size |-> disk[p].size,
                        indexed_in |-> index_file_path, checksum |-> "None"])

RemoveRecord_KeepAll(files, p) == files

\* MetaManager.remove_record
RemoveRecord(files, p) == IF p \in DOMAIN files THEN Del(files, p) ELSE files

\* The keys of a dict as a list (in listing order; the order in which the
\* dict was filled is not kept).
RECURSIVE KeysFrom(_, _)
KeysFrom(files, i) ==
    IF i > Len(Listing) THEN <<>>
    ELSE (IF Listing[i] \in DOMAIN files THEN <<Listing[i]>> ELSE <<>>)
         \o KeysFrom(files, i + 1)

RECURSIVE NotIn(_, _)
NotIn(keys, current_files) ==
    IF keys = <<>> THEN <<>>
    ELSE (IF Head(keys) \notin current_files THEN <<Head(keys)>> ELSE <<>>)
         \o NotIn(Tail(keys), current_files)

GetDeletedFiles_Present(files, current_files) ==
    NotIn(KeysFrom(files, 1), Paths \ current_files)

\* MetaManager.get_deleted_files
GetDeletedFiles(files, current_files) == NotIn(KeysFrom(files, 1), current_files)

\* MetaManager.cleanup_deleted
RECURSIVE CleanupDeleted(_, _)
CleanupDeleted(files, deleted_files) ==
    IF deleted_files = <<>> THEN files
    ELSE CleanupDeleted(RemoveRecord(files, Head(deleted_files)),
                        Tail(deleted_files))

Elems(seq) == {seq[i] : i \in 1..Len(seq)}

\* ------------------------------------------- the search index of the store
\* update_file_record takes no symbols and MetaManager has no search: the
\* SearchEntry rows and search are modelled from the specification of the
\* Metadata Store.  A row is [path, symbol].
\* recordFile regenerates the rows of its path: delete all, then insert all.
RegenerateEntries(rows, p, symbols) ==
    {r \in rows : r.path # p} \cup {[path |-> p, symbol |-> x] : x \in symbols}

\* query is a substring of the symbol name (for the names and queries of the
\* search harness)
Contains(symbol, query) ==
    CASE query = "a" -> symbol \in {"alpha", "beta"}
      [] query = "lph" -> symbol = "alpha"
      [] query = "et" -> symbol = "beta"

\* search(query): the rows whose symbol matches, one per (path, symbol)
Search(rows, query) == {r \in rows : Contains(r.symbol, query)}

\* ---------------------------------------------------------- index_project
\* sorted(files, key=lambda p: p.name.lower()): a stable insertion sort
RECURSIVE InsertByName(_, _)
InsertByName(sorted, p) ==
    IF sorted = <<>> THEN <<p>>
    ELSE IF StrRank(Lower(Name(p))) < StrRank(Lower(Name(Head(sorted))))
         THEN <<p>> \o sorted
         ELSE <<Head(sorted)>> \o InsertByName(Tail(sorted), p)

RECURSIVE SortedByName(_)
SortedByName(files) ==
    IF files = <<>> THEN <<>>
    ELSE InsertByName(SortedByName(SubSeq(files, 1, Len(files) - 1)),
                      files[Len(files)])

\* file_path.read_text succeeds
CanRead(disk, p) == p \in DOMAIN disk /\ disk[p].readable

\* f"### {file_path.name}"
FileHeading(p) == <<[id |-> <<"### ", Name(p)>>, k |-> 0, n |-> 4 + Len(Name(p))]>>

\* f"_Error parsing file: {e}_"; the OSError text names the path
ErrorLine(p) ==
    <<[id |-> <<"_Error parsing file: ", p, "_">>, k |-> 0, n |-> 60 + Len(p)]>>

FileBlock_DropFailed(p, disk) ==
    IF GetParser(p) = NoParser \/ ~CanRead(disk, p) THEN <<>>
    ELSE << FileHeading(p),
            <<[id |-> <<"**Path**: ", p>>, k |-> 0, n |-> 12 + Len(p)]>>,
            <<[id |-> <<"**Language**: ", GetParser(p).language_name>>, k |-> 0,
               n |-> 14 + Len(GetParser(p).language_name)]>>,
            <<>>,
            FormatMarkdown(Parse(disk[p].size)),
            <<>>,
            Separator,
            <<>> >>

\* The lines one file adds to the report (the body of the for loop).
FileBlock(p, disk) ==
    IF GetParser(p) = NoParser THEN <<>>
    ELSE << FileHeading(p),
            <<[id |-> <<"**Path**: ", p>>, k |-> 0, n |-> 12 + Len(p)]>>,
            <<[id |-> <<"**Language**: ", GetParser(p).language_name>>, k |-> 0,
               n |-> 14 + Len(GetParser(p).language_name)]>>,
            <<>>,
            IF CanRead(disk, p)
            THEN FormatMarkdown(Parse(disk[p].size))
            ELSE ErrorLine(p),
            <<>>,
            Separator,
            <<>> >>

RECURSIVE FileBlocks(_, _)
FileBlocks(files, disk) ==
    IF files = <<>> THEN <<>>
    ELSE FileBlock(Head(files), disk) \o FileBlocks(Tail(files), disk)

\* generate_directory_index(rel_dir, files, root_dir), reading the disk
GenerateDirectoryIndex(rel_dir, files, disk) ==
    LET dir_name == IF rel_dir # "" THEN rel_dir ELSE "Root Directory"
        header ==
            << <<[id |-> <<"# ", dir_name>>, k |-> 0, n |-> 2 + Len(dir_name)]>>,
               <<>>,
               Line("## Directory Purpose", 20),
               Line("_AI can describe the purpose of this directory here_", 52),
               <<>>,
               Line("## Files", 8),
               <<>> >>
    IN  Join(header \o FileBlocks(SortedByName(files), disk))

\* The files of a directory among `present`, in listing order.
RECURSIVE ListedIn(_, _, _)
ListedIn(rel_dir, present, i) ==
    IF i > Len(Listing) THEN <<>>
    ELSE (IF Listing[i] \in present /\ RelDir(Listing[i]) = rel_dir
             /\ GetParser(Listing[i]) # NoParser
          THEN <<Listing[i]>> ELSE <<>>)
         \o ListedIn(rel_dir, present, i + 1)

\* safe_name in main()
SafeName(rel_dir) == IF rel_dir # "" THEN rel_dir ELSE "root"

\* ----------------------------------------------------- chunk-writer inputs

LinePool ==
    { <<>>, Separator,
      Line("a", MAX_CHARS_PER_FILE \div 2 - 1),
      Line("b", MAX_CHARS_PER_FILE \div 2),
      Line("c", MAX_CHARS_PER_FILE + 1) }

ArbitraryContents ==
    { Join(ls) : ls \in UNION { [1..n -> LinePool] : n \in 1..MaxLines } }

\* Disks to build directory reports from (the modification time is not read
\* by generate_directory_index).
SampleDisks ==
    UNION { [present -> [mtime : {1}, size : Sizes, readable : BOOLEAN]] :
            present \in SUBSET Paths }

\* A call main() can make: a directory, its listed files, the disk read.
ReportCalls ==
    { [rel_dir |-> WalkDirs[d], files |-> ListedIn(WalkDirs[d], listed, 1),
       disk |-> disk] :
      d \in 1..Len(WalkDirs), listed \in SUBSET Paths, disk \in SampleDisks }

Reports ==
    { GenerateDirectoryIndex(c.rel_dir, c.files, c.disk) :
      c \in {x \in ReportCalls : x.files # <<>>} }

\* ------------------------------------------------- chunk-writer harness
ChunkInit ==
    /\ content \in ArbitraryContents \cup Reports
    /\ base_name \in {"root"}
    /\ written_files = <<>>
    /\ artifacts = EmptyDict
    /\ readback = <<>>
    /\ cpc = "call"
    /\ fs = EmptyDict /\ data = EmptyDict /\ recorded = EmptyDict
    /\ meta = NoMetaFile
    /\ pc = "off" /\ update = FALSE /\ force = FALSE
    /\ files_by_dir = EmptyDict /\ todo = <<>>
    /\ nav = {} /\ failed = {} /\ skipped = {} /\ ret = NoCall
    /\ runs = 0 /\ envs = 0
    /\ parsers = Parsers /\ source = <<>> /\ entries = {} /\ passes = EmptyDict

ChunkWrite ==
    /\ cpc = "call"
    /\ LET written == WriteChunkedIndex(content, base_name)
       IN  /\ written_files' = WrittenPaths(written)
           /\ artifacts' = WriteAll(artifacts, written)
    /\ cpc' = "written"
    /\ UNCHANGED <<content, base_name, readback>>
    /\ UNCHANGED <<fs, data, recorded, ret, envs, parsers, source, entries,
                   passes>>
    /\ UNCHANGED runVars

ChunkRead ==
    /\ cpc = "written"
    /\ readback' = Reassemble(written_files, artifacts, 1)
    /\ cpc' = "read"
    /\ UNCHANGED chunkVars
    /\ UNCHANGED <<fs, data, recorded, ret, envs, parsers, source, entries,
                   passes>>
    /\ UNCHANGED runVars

ChunkNext == ChunkWrite \/ ChunkRead

SpecChunk == ChunkInit /\ [][ChunkNext]_vars

\* ------------------------------------------------------------------ main()
\* collect_files: the parseable files of each directory that has any
CollectFiles(disk) ==
    LET dirs == {WalkDirs[d] : d \in 1..Len(WalkDirs)}
        found == {rel_dir \in dirs : ListedIn(rel_dir, DOMAIN disk, 1) # <<>>}
    IN  [rel_dir \in found |-> ListedIn(rel_dir, DOMAIN disk, 1)]

\* files_by_dir.items(): the directories in the order they were met
RECURSIVE DirsFrom(_, _)
DirsFrom(by_dir, d) ==
    IF d > Len(WalkDirs) THEN <<>>
    ELSE (IF WalkDirs[d] \in DOMAIN by_dir THEN <<WalkDirs[d]>> ELSE <<>>)
         \o DirsFrom(by_dir, d + 1)

NeedsUpdate_FirstOnly(files, disk, dict) == ShouldReindex(disk, dict, Head(files))

\* The needs_update loop of main(), with its break
RECURSIVE NeedsUpdate(_, _, _)
NeedsUpdate(files, disk, dict) ==
    IF files = <<>> THEN FALSE
    ELSE IF ShouldReindex(disk, dict, Head(files)) THEN TRUE
    ELSE NeedsUpdate(Tail(files), disk, dict)

\* for written_file in written_files: update_file_record(file_path, written_file)
RECURSIVE RecordFile(_, _, _, _)
RecordFile(dict, p, written, disk) ==
    IF written = <<>> THEN dict
    ELSE RecordFile(UpdateFileRecord(disk, dict, p, Head(written)), p,
                    Tail(written), disk)

\* for file_path in files: ...
RECURSIVE RecordAll(_, _, _, _)
RecordAll(dict, files, written, disk) ==
    IF files = <<>> THEN dict
    ELSE RecordAll(RecordFile(dict, Head(files), written, disk), Tail(files),
                   written, disk)

\* generate_main_index: directories_dir.glob("*.md"), as the set it lists
Navigation(files) == DOMAIN files

\* ------------------------------------------------- the project's files change
WriteFile(disk, p, t, s) ==
    Put(disk, p, [mtime |-> t, size |-> s,
                  readable |-> IF p \in DOMAIN disk THEN disk[p].readable ELSE TRUE])

Changes(disk, p, t, s) ==
    p \in DOMAIN disk => <<t, s>> # <<disk[p].mtime, disk[p].size>>

\* Another process creates, edits or touches a file.
EnvWrite(p, t, s) ==
    /\ pc # "off" /\ envs < MaxEnv
    /\ Changes(fs, p, t, s)
    /\ fs' = WriteFile(fs, p, t, s)
    /\ envs' = envs + 1
    /\ UNCHANGED <<data, recorded, ret, readback, cpc>>
    /\ UNCHANGED runVars /\ UNCHANGED chunkVars
    /\ UNCHANGED <<parsers, source, entries, passes>>

\* Another process deletes a file.
EnvDelete(p) ==
    /\ pc # "off" /\ envs < MaxEnv
    /\ p \in DOMAIN fs
    /\ fs' = Del(fs, p)
    /\ envs' = envs + 1
    /\ UNCHANGED <<data, recorded, ret, readback, cpc>>
    /\ UNCHANGED runVars /\ UNCHANGED chunkVars
    /\ UNCHANGED <<parsers, source, entries, passes>>

\* Another process takes away or gives back the permission to read a file.
EnvChmod(p) ==
    /\ pc # "off" /\ envs < MaxEnv
    /\ p \in DOMAIN fs
    /\ fs' = [fs EXCEPT ![p].readable = ~@]
    /\ envs' = envs + 1
    /\ UNCHANGED <<data, recorded, ret, readback, cpc>>
    /\ UNCHANGED runVars /\ UNCHANGED chunkVars
    /\ UNCHANGED <<parsers, source, entries, passes>>

\* ------------------------------------------------------------ a run of main()
\* main() up to the for loop: MetaManager(index_dir), collect_files.  The
\* project type and the timestamps of the metadata are not modelled.
StartRun(u, f) ==
    /\ pc = "idle" /\ runs < MaxRuns
    /\ runs' = runs + 1
    /\ update' = u /\ force' = f
    /\ data' = Load(meta)
    /\ files_by_dir' = CollectFiles(fs)
    /\ todo' = DirsFrom(CollectFiles(fs), 1)
    /\ failed' = {} /\ skipped' = {}
    /\ content' = <<>> /\ base_name' = "" /\ written_files' = <<>>
    /\ pc' = "dirs"
    /\ passes' = EmptyDict
    /\ UNCHANGED <<fs, meta, artifacts, nav, recorded, ret, envs, readback, cpc,
                   parsers, source, entries>>

\* One pass of the for loop up to "Update metadata": the update check, then
\* generate_directory_index and write_chunked_index.
ProcessDir ==
    /\ pc = "dirs" /\ todo # <<>>
    /\ LET rel_dir == Head(todo)
           files == files_by_dir[rel_dir]
       IN  IF update /\ ~force /\ ~NeedsUpdate(files, fs, data)
           THEN /\ todo' = Tail(todo)
                /\ skipped' = skipped \cup {rel_dir}
                /\ UNCHANGED <<pc, failed, passes>>
                /\ UNCHANGED chunkVars
           ELSE LET text == GenerateDirectoryIndex(rel_dir, files, fs)
                    written == WriteChunkedIndex(text, SafeName(rel_dir))
                IN  /\ content' = text
                    /\ base_name' = SafeName(rel_dir)
                    /\ written_files' = WrittenPaths(written)
                    /\ artifacts' = WriteAll(artifacts, written)
                    /\ failed' = failed \cup {p \in Elems(files) : ~CanRead(fs, p)}
                    /\ passes' =
                          Put(passes, rel_dir,
                              [written |-> WrittenPaths(written),
                               read |-> [p \in {x \in Elems(files) : CanRead(fs, x)}
                                            |-> <<fs[p].mtime, fs[p].size>>]])
                    /\ pc' = "record"
                    /\ UNCHANGED <<todo, skipped>>
    /\ UNCHANGED <<fs, meta, data, update, force, files_by_dir, nav, recorded,
                   ret, runs, envs, readback, cpc, parsers, source, entries>>

\* The "Update metadata" loops of the pass.
RecordDir ==
    /\ pc = "record"
    /\ data' = RecordAll(data, files_by_dir[Head(todo)], written_files, fs)
    /\ todo' = Tail(todo)
    /\ pc' = "dirs"
    /\ UNCHANGED <<fs, meta, update, force, files_by_dir, nav, failed, skipped,
                   recorded, ret, runs, envs, readback, cpc, parsers, source,
                   entries, passes>>
    /\ UNCHANGED chunkVars

\* After the loop: generate_main_index, then meta_manager.save().
FinishRun ==
    /\ pc = "dirs" /\ todo = <<>>
    /\ nav' = Navigation(artifacts)
    /\ meta' = Saved(data)
    /\ pc' = "idle"
    /\ UNCHANGED <<fs, data, update, force, files_by_dir, todo, failed, skipped,
                   recorded, ret, runs, envs, readback, cpc, parsers, source,
                   entries, passes>>
    /\ UNCHANGED chunkVars

\* After the loop: generate_main_index, then meta_manager.save() opens the
\* file for writing and the write does not complete (the process is killed,
\* or json.dump raises on a full disk and main() ends with the exception).
SaveInterrupted ==
    /\ pc = "dirs" /\ todo = <<>>
    /\ nav' = Navigation(artifacts)
    /\ meta' = Truncated
    /\ pc' = "idle"
    /\ UNCHANGED <<fs, data, update, force, files_by_dir, todo, failed, skipped,
                   recorded, ret, runs, envs, readback, cpc, parsers, source,
                   entries, passes>>
    /\ UNCHANGED chunkVars

\* The project before the first run: the files of the root directory have
\* either size, the file of pkg is the small one (it can grow later).
Init ==
    /\ fs \in {f \in [Paths -> [mtime : {1}, size : Sizes, readable : {TRUE}]] :
                 f["pkg/c.ts"].size = 64}
    /\ meta = NoMetaFile
    /\ data = EmptyDict
    /\ pc = "idle" /\ update = FALSE /\ force = FALSE
    /\ files_by_dir = EmptyDict /\ todo = <<>>
    /\ content = <<>> /\ base_name = "" /\ written_files = <<>>
    /\ artifacts = EmptyDict
    /\ nav = {} /\ failed = {} /\ skipped = {}
    /\ recorded = EmptyDict /\ ret = NoCall
    /\ runs = 0 /\ envs = 0
    /\ readback = <<>> /\ cpc = "off"
    /\ parsers = Parsers /\ source = <<>> /\ entries = {} /\ passes = EmptyDict

Next ==
    \/ \E u \in BOOLEAN, f \in BOOLEAN : StartRun(u, f)
    \/ ProcessDir
    \/ RecordDir
    \/ FinishRun
    \/ SaveInterrupted
    \/ \E p \in Paths, t \in Times, s \in Sizes : EnvWrite(p, t, s)
    \/ \E p \in Paths : EnvDelete(p)
    \/ \E p \in Paths : EnvChmod(p)

Spec == Init /\ [][Next]_vars

\* ------------------------------------------------------- the store harness
\* One MetaManager on a fresh index directory, its methods called in any
\* order while the files change.
StorePaths == {"a.py", "B.py"}

IndexArgs == {ArtifactPath("root", 0), ArtifactPath("root", 2)}

StoreInit ==
    /\ fs \in [StorePaths -> [mtime : {1}, size : Sizes, readable : {TRUE}]]
    /\ meta = NoMetaFile
    /\ data = Load(NoMetaFile)
    /\ recorded = EmptyDict
    /\ ret = NoCall
    /\ pc = "off" /\ update = FALSE /\ force = FALSE
    /\ files_by_dir = EmptyDict /\ todo = <<>>
    /\ content = <<>> /\ base_name = "" /\ written_files = <<>>
    /\ artifacts = EmptyDict
    /\ nav = {} /\ failed = {} /\ skipped = {}
    /\ runs = 0 /\ envs = 0
    /\ readback = <<>> /\ cpc = "off"
    /\ parsers = Parsers /\ source = <<>> /\ entries = {} /\ passes = EmptyDict

StoreFrame ==
    /\ UNCHANGED <<envs, readback, cpc>>
    /\ UNCHANGED runVars /\ UNCHANGED chunkVars
    /\ UNCHANGED <<parsers, source, entries, passes>>

StoreEnvWrite(p, t, s) ==
    /\ Changes(fs, p, t, s)
    /\ fs' = WriteFile(fs, p, t, s)
    /\ UNCHANGED <<data, recorded, ret>>
    /\ StoreFrame

StoreEnvDelete(p) ==
    /\ p \in DOMAIN fs
    /\ fs' = Del(fs, p)
    /\ UNCHANGED <<data, recorded, ret>>
    /\ StoreFrame

StoreShouldReindex(p) ==
    /\ ret' = [op |-> "should_reindex", arg |-> {p},
               val |-> ShouldReindex(fs, data, p)]
    /\ UNCHANGED <<fs, data, recorded>>
    /\ StoreFrame

StoreUpdate(p, index_file_path) ==
    /\ data' = UpdateFileRecord(fs, data, p, index_file_path)
    /\ recorded' = IF p \in DOMAIN fs
                   THEN Put(recorded, p, <<fs[p].mtime, fs[p].size>>)
                   ELSE recorded
    /\ ret' = [op |-> "update_file_record", arg |-> {p}, val |-> {}]
    /\ UNCHANGED fs
    /\ StoreFrame

StoreRemove(p) ==
    /\ data' = RemoveRecord(data, p)
    /\ recorded' = [x \in DOMAIN recorded \ {p} |-> recorded[x]]
    /\ ret' = [op |-> "remove_record", arg |-> {p}, val |-> {}]
    /\ UNCHANGED fs
    /\ StoreFrame

StoreGetDeleted(current_files) ==
    /\ ret' = [op |-> "get_deleted_files", arg |-> current_files,
               val |-> GetDeletedFiles(data, current_files)]
    /\ UNCHANGED <<fs, data, recorded>>
    /\ StoreFrame

\* cleanup_deleted(get_deleted_files(S)): the list the last call returned
StoreCleanup ==
    /\ ret.op = "get_deleted_files"
    /\ data' = CleanupDeleted(data, ret.val)
    /\ recorded' = [x \in DOMAIN recorded \ Elems(ret.val) |-> recorded[x]]
    /\ ret' = [op |-> "cleanup_deleted", arg |-> ret.arg, val |-> ret.val]
    /\ UNCHANGED fs
    /\ StoreFrame

StoreNext ==
    \/ \E p \in StorePaths, t \in Times, s \in Sizes : StoreEnvWrite(p, t, s)
    \/ \E p \in StorePaths : StoreEnvDelete(p)
    \/ \E p \in StorePaths : StoreShouldReindex(p)
    \/ \E p \in StorePaths, a \in IndexArgs : StoreUpdate(p, a)
    \/ \E p \in StorePaths : StoreRemove(p)
    \/ \E S \in SUBSET Paths : StoreGetDeleted(S)
    \/ StoreCleanup

SpecStore == StoreInit /\ [][StoreNext]_vars

\* ---------------------------------------------------- the registry harness
\* ParserRegistry from its empty state: parsers are registered in any order,
\* files are resolved and directory listings filtered as collect_files does.
RegistryNames == {"a.py", "X.PY", "pkg/c.ts", "notes.txt", "Makefile"}

\* The two parsers of the program and one whose extensions collide with
\* the Python parser's.
ParserPool ==
    { Parsers[1], Parsers[2],
      [language_name |-> "Stub", extensions |-> {".py", ".txt"}] }

\* The filenames os.walk gives for one directory.
SampleListings ==
    { names \in UNION { [1..n -> RegistryNames] : n \in 1..2 } :
        \A i, j \in DOMAIN names : names[i] = names[j] => i = j }

\* The loop over filenames in collect_files (nothing is ignored): a file is
\* appended when get_parser returns a parser for it.
RECURSIVE Parseable(_, _)
Parseable(registry, filenames) ==
    IF filenames = <<>> THEN <<>>
    ELSE (IF FirstParser(registry, Head(filenames)) # NoParser
          THEN <<Head(filenames)>> ELSE <<>>)
         \o Parseable(registry, Tail(filenames))

RegistryInit ==
    /\ parsers = <<>> /\ source = <<>> /\ entries = {} /\ passes = EmptyDict
    /\ ret = NoCall
    /\ fs = EmptyDict /\ data = EmptyDict /\ recorded = EmptyDict
    /\ meta = NoMetaFile
    /\ pc = "off" /\ update = FALSE /\ force = FALSE
    /\ files_by_dir = EmptyDict /\ todo = <<>>
    /\ content = <<>> /\ base_name = "" /\ written_files = <<>>
    /\ artifacts = EmptyDict
    /\ nav = {} /\ failed = {} /\ skipped = {}
    /\ runs = 0 /\ envs = 0
    /\ readback = <<>> /\ cpc = "off"

RegistryFrame ==
    /\ UNCHANGED <<fs, data, recorded, envs, readback, cpc, source, entries, passes>>
    /\ UNCHANGED runVars /\ UNCHANGED chunkVars

\* ParserRegistry.register
Register(parser) ==
    /\ Len(parsers) < MaxParsers
    /\ parsers' = Append(parsers, parser)
    /\ ret' = [op |-> "register", arg |-> {parser}, val |-> {}]
    /\ RegistryFrame

\* ParserRegistry.clear
Clear ==
    /\ parsers' = <<>>
    /\ ret' = [op |-> "clear", arg |-> {}, val |-> {}]
    /\ RegistryFrame

\* ParserRegistry.get_parser(file_path)
RegistryGetParser(p) ==
    /\ ret' = [op |-> "get_parser", arg |-> {p}, val |-> FirstParser(parsers, p)]
    /\ UNCHANGED parsers
    /\ RegistryFrame

\* collect_files on one directory's filenames
RegistryCollect(filenames) ==
    /\ ret' = [op |-> "collect_files", arg |-> filenames,
               val |-> Parseable(parsers, filenames)]
    /\ UNCHANGED parsers
    /\ RegistryFrame

RegistryNext ==
    \/ \E parser \in ParserPool : Register(parser)
    \/ Clear
    \/ \E p \in RegistryNames : RegistryGetParser(p)
    \/ \E filenames \in SampleListings : RegistryCollect(filenames)

SpecRegistry == RegistryInit /\ [][RegistryNext]_vars

\* ------------------------------------------------------ the search harness
\* recordFile(path, artifact, symbols) and search(query) on a store whose
\* files are all there.
SymbolSets == {{"alpha"}, {"beta"}, {"alpha", "beta"}}

Queries == {"a", "lph", "et"}

SearchInit ==
    /\ fs = [p \in StorePaths |-> [mtime |-> 1, size |-> 64, readable |-> TRUE]]
    /\ meta = NoMetaFile
    /\ data = Load(NoMetaFile)
    /\ entries = {} /\ passes = EmptyDict
    /\ recorded = [p \in StorePaths |-> <<>>]
    /\ ret = NoCall
    /\ parsers = Parsers /\ source = <<>>
    /\ pc = "off" /\ update = FALSE /\ force = FALSE
    /\ files_by_dir = EmptyDict /\ todo = <<>>
    /\ content = <<>> /\ base_name = "" /\ written_files = <<>>
    /\ artifacts = EmptyDict
    /\ nav = {} /\ failed = {} /\ skipped = {}
    /\ runs = 0 /\ envs = 0
    /\ readback = <<>> /\ cpc = "off"

\* recordFile: update_file_record, then the rows of the path regenerated
SearchRecordFile(p, index_file_path, symbols) ==
    /\ Len(recorded[p]) < MaxCalls
    /\ data' = UpdateFileRecord(fs, data, p, index_file_path)
    /\ entries' = RegenerateEntries(entries, p, symbols)
    /\ recorded' = [recorded EXCEPT
                      ![p] = Append(@, [artifact |-> index_file_path,
                                        symbols |-> symbols])]
    /\ ret' = [op |-> "record_file", arg |-> {p}, val |-> {}]
    /\ UNCHANGED <<fs, envs, readback, cpc, parsers, source, passes>>
    /\ UNCHANGED runVars /\ UNCHANGED chunkVars

SearchQuery(query) ==
    /\ ret' = [op |-> "search", arg |-> {query}, val |-> Search(entries, query)]
    /\ UNCHANGED <<fs, data, recorded, entries, envs, readback, cpc, parsers,
                   source, passes>>
    /\ UNCHANGED runVars /\ UNCHANGED chunkVars

SearchNext ==
    \/ \E p \in StorePaths, a \in IndexArgs, symbols \in SymbolSets :
          SearchRecordFile(p, a, symbols)
    \/ \E query \in Queries : SearchQuery(query)

SpecSearch == SearchInit /\ [][SearchNext]_vars

\* ------------------------------------------------------ the parser harness
\* PythonParser._extract_definitions on a source of a few lines.
SourceLines ==
    [indent : {0, 4, 8}, kind : {"def"},
     name : {"computeTotal", "_helper", "__init__", "__len__"}]
    \cup [indent : {0, 4, 8}, kind : {"class"}, name : {"Foo", "_Hidden"}]
    \cup [indent : {0, 4, 8}, kind : {"stmt"}, name : {""}]
    \cup [indent : {0}, kind : {"blank"}, name : {""}]

ParseInit ==
    /\ source \in UNION { [1..n -> SourceLines] : n \in 1..MaxSrcLines }
    /\ entries = {} /\ passes = EmptyDict
    /\ ret = NoCall
    /\ parsers = Parsers
    /\ fs = EmptyDict /\ data = EmptyDict /\ recorded = EmptyDict
    /\ meta = NoMetaFile
    /\ pc = "off" /\ update = FALSE /\ force = FALSE
    /\ files_by_dir = EmptyDict /\ todo = <<>>
    /\ content = <<>> /\ base_name = "" /\ written_files = <<>>
    /\ artifacts = EmptyDict
    /\ nav = {} /\ failed = {} /\ skipped = {}
    /\ runs = 0 /\ envs = 0
    /\ readback = <<>> /\ cpc = "off"

ParseDefinitions ==
    /\ ret = NoCall
    /\ ret' = [op |-> "extract_definitions", arg |-> {},
               val |-> ExtractDefinitions(source)]
    /\ UNCHANGED <<fs, data, recorded, envs, readback, cpc, parsers, source,
                   entries, passes>>
    /\ UNCHANGED runVars /\ UNCHANGED chunkVars

ParseNext == ParseDefinitions

SpecParse == ParseInit /\ [][ParseNext]_vars

\* ====================================================== chunk-writer claims
\* The text of the i-th listed artifact without its part marker.
StrippedChunk(i) ==
    IF i = 1 THEN artifacts[written_files[1]]
    ELSE StripMarker(artifacts[written_files[i]], written_files[i].base,
                     written_files[i].part)

StrippedChunks == [i \in 1..Len(written_files) |-> StrippedChunk(i)]

IsPrefix(s, t) == Len(s) <= Len(t) /\ SubSeq(t, 1, Len(s)) = s

\* C2: concatenating the returned artifacts in order, the part marker of
\* every artifact after the first stripped, gives back the content exactly.
C2_RoundTrip == cpc = "read" => readback = content

\* A chunk ends where a file's block ends: on the "---" line or on the empty
\* line that follows it.
EndsSection(chunk) ==
    LET ls == Split(chunk)
        n == Len(ls)
    IN  \/ ls[n] = Separator
        \/ n >= 2 /\ ls[n] = <<>> /\ ls[n - 1] = Separator

\* C3: when a directory report is split, every chunk but the last ends on a
\* section separator, so no file's block lies in two chunks.
C3_NoSectionSplit ==
    (cpc = "written" /\ content \in Reports)
        => \A i \in 1..(Len(written_files) - 1) : EndsSection(StrippedChunk(i))

\* A first-fit pack of the lines by the length of the chunk as written:
\* a line joins the current chunk unless the joined chunk would be longer
\* than the limit.  Returns the number of chunks.
RECURSIVE FirstFitCount(_, _, _)
FirstFitCount(lines, cur_len, count) ==
    IF lines = <<>> THEN count
    ELSE IF count = 0
         THEN FirstFitCount(Tail(lines), TextLen(Head(lines)), 1)
         ELSE IF cur_len + 1 + TextLen(Head(lines)) > MAX_CHARS_PER_FILE
              THEN FirstFitCount(Tail(lines), TextLen(Head(lines)), count + 1)
              ELSE FirstFitCount(Tail(lines),
                                 cur_len + 1 + TextLen(Head(lines)), count)

\* C4: content within the limit gives one artifact; otherwise a chunk ends
\* exactly where the next line would make it longer than the limit, and the
\* number of chunks is the number a first-fit pack of the lines needs.
C4_GreedyMinimal ==
    cpc = "written" =>
        IF TextLen(content) <= MAX_CHARS_PER_FILE
        THEN Len(written_files) = 1
        ELSE /\ \A i \in 1..(Len(written_files) - 1) :
                    TextLen(StrippedChunk(i)) + 1
                      + TextLen(Split(StrippedChunk(i + 1))[1])
                        > MAX_CHARS_PER_FILE
             /\ Len(written_files) = FirstFitCount(Split(content), 0, 0)

\* C5: with more than one chunk, the i-th artifact is part i, every artifact
\* after the first starts with the part marker of its position, the first
\* starts as the content does (no marker), and the chunks in list order,
\* joined by newlines, are the content.
C5_PartMarkers ==
    (cpc = "written" /\ Len(written_files) > 1) =>
        /\ \A i \in 1..Len(written_files) :
              /\ written_files[i] = ArtifactPath(base_name, i)
              /\ i > 1 => IsPrefix(PartMarker(base_name, i),
                                   artifacts[written_files[i]])
        /\ IsPrefix(artifacts[written_files[1]], content)
        /\ Join(StrippedChunks) = content

C5_Witness == cpc = "written" /\ Len(written_files) >= 3

\* C20: every artifact the chunk writer writes is, with its part marker, at
\* most MAX_CHARS_PER_FILE characters long, unless its chunk is a single
\* line that is itself longer than that.
C20_WrittenSizeBound ==
    cpc = "written" =>
        \A i \in 1..Len(written_files) :
            \/ TextLen(artifacts[written_files[i]]) <= MAX_CHARS_PER_FILE
            \/ /\ Len(Split(StrippedChunk(i))) = 1
               /\ TextLen(StrippedChunk(i)) > MAX_CHARS_PER_FILE

\* ============================================================ store claims
\* The record of p in a dict, or "none".
RecordOf(dict, p) == IF p \in DOMAIN dict THEN dict[p] ELSE [none |-> TRUE]

Fingerprint(disk, p) == <<disk[p].mtime, disk[p].size>>

\* C1: for an existing file that update_file_record has recorded,
\* should_reindex is false while the (mtime, size) on disk is the recorded
\* one and true once either differs.
C1_ChangeDetection ==
    \A p \in DOMAIN recorded \cap DOMAIN fs :
        ShouldReindex(fs, data, p) = (Fingerprint(fs, p) # recorded[p])

\* A recorded file whose size alone has changed since.
C1_Witness ==
    \E p \in DOMAIN recorded \cap DOMAIN fs :
        /\ fs[p].mtime = recorded[p][1]
        /\ fs[p].size # recorded[p][2]
        /\ ret.op = "should_reindex" /\ ret.arg = {p} /\ ret.val = TRUE

\* C8: get_deleted_files(S) returns exactly the recorded paths outside S,
\* and cleanup_deleted of that list leaves no record outside S and every
\* record inside S as it was.
C8_GarbageCollection ==
    [][ /\ ret'.op = "get_deleted_files"
            => /\ Elems(ret'.val) = DOMAIN data' \ ret'.arg
               /\ Len(ret'.val) = Cardinality(Elems(ret'.val))
        /\ (ret.op = "get_deleted_files" /\ ret'.op = "cleanup_deleted")
            => /\ DOMAIN data' \subseteq ret.arg
               /\ \A p \in DOMAIN data \cap ret.arg :
                     p \in DOMAIN data' /\ data'[p] = data[p] ]_vars

\* A cleanup that removed a record and kept another.
C8_Witness ==
    /\ ret.op = "cleanup_deleted"
    /\ ret.val # <<>>
    /\ DOMAIN data # {}

\* C16: should_reindex returns false for a path whose file is not there,
\* with or without a record; true for a file that is there and has no
\* record; for a recorded file that is there, true exactly when the stored
\* mtime or the stored size is not the current one; and the call leaves the
\* records, the store file and the files as they were.
C16_DecisionTable ==
    [][ (ret' # ret /\ ret'.op = "should_reindex") =>
          LET p == CHOOSE x \in ret'.arg : TRUE
          IN  /\ p \notin DOMAIN fs => ret'.val = FALSE
              /\ (p \in DOMAIN fs /\ p \notin DOMAIN data) => ret'.val = TRUE
              /\ (p \in DOMAIN fs /\ p \in DOMAIN data) =>
                    (ret'.val = TRUE <=>
                        (data[p].mtime # fs[p].mtime \/ data[p].size # fs[p].size))
              /\ data' = data /\ meta' = meta /\ fs' = fs ]_vars

\* should_reindex called for a recorded path whose file has been deleted.
C16_Witness ==
    /\ ret.op = "should_reindex" /\ ret.val = FALSE
    /\ \E p \in ret.arg : p \in DOMAIN data /\ p \notin DOMAIN fs

\* The last recordFile call for the path.
LastCall(history, p) == history[p][Len(history[p])]

Collected == UNION {Elems(files_by_dir[d]) : d \in DOMAIN files_by_dir}

\* The directory whose report the run wrote last.
LastDir == CHOOSE d \in DOMAIN files_by_dir : SafeName(d) = base_name

\* C6: in incremental mode (update and not force) a directory is processed
\* exactly when one of its files is flagged by should_reindex; otherwise
\* (full, or forced with or without update) every directory is processed.
\* A pass over a directory writes only that directory's artifacts and
\* changes only its files' records; a skipped directory keeps its artifacts
\* and the records of its files (those the run loaded) while the run lasts.
C6_RunModes ==
    /\ [][ (pc = "dirs" /\ todo # <<>> /\ (pc' = "record" \/ todo' # todo)) =>
             LET files == files_by_dir[Head(todo)]
                 processed == pc' = "record"
             IN  /\ (update /\ ~force) =>
                        (processed <=>
                            \E p \in Elems(files) : ShouldReindex(fs, data, p))
                 /\ ~(update /\ ~force) => processed
                 /\ ~processed => artifacts' = artifacts /\ data' = data
                 /\ processed =>
                        /\ written_files' # <<>>
                        /\ Elems(written_files') \subseteq DOMAIN artifacts'
                        /\ \A a \in DOMAIN artifacts' :
                              a.base # SafeName(Head(todo)) =>
                                 a \in DOMAIN artifacts
                                 /\ artifacts'[a] = artifacts[a] ]_vars
    /\ [][ (pc = "record" /\ pc' = "dirs") =>
             \A p \in Paths \ Elems(files_by_dir[Head(todo)]) :
                 RecordOf(data', p) = RecordOf(data, p) ]_vars
    /\ [](pc \in {"dirs", "record"} =>
              \A d \in skipped : \A p \in Elems(files_by_dir[d]) :
                  RecordOf(data, p) = RecordOf(Load(meta), p))

\* An incremental run that skipped one directory and processed another.
C6_Witness ==
    /\ update /\ ~force
    /\ skipped # {}
    /\ base_name # ""
    /\ pc = "dirs" /\ todo = <<>>

\* C7: when a full run has completed, the persisted store holds no record
\* for a path that is not in the file set the run collected.
C7_DeletedCleanup ==
    (pc = "idle" /\ runs >= 1 /\ ~(update /\ ~force))
        => DOMAIN meta.files \subseteq Collected

\* The text holds the heading of p's block.
HasBlock(text, p) == \E i \in 1..Len(text) : <<text[i]>> = FileHeading(p)

\* C9: once a directory has been processed and recorded, the record of each
\* of its files names an artifact that holds that file's block.
C9_ProducedArtifact ==
    (pc = "dirs" /\ base_name # "") =>
        \A p \in Elems(files_by_dir[LastDir]) :
            p \in DOMAIN data =>
                /\ data[p].indexed_in \in DOMAIN artifacts
                /\ HasBlock(artifacts[data[p].indexed_in], p)

\* C10: a file whose read failed in this run has its record neither created
\* nor updated by the run, and when the run is over should_reindex flags it
\* (if it is there) for the next run.
C10_ReadFailureSkipped ==
    /\ pc \in {"dirs", "record"} =>
          \A p \in failed : RecordOf(data, p) = RecordOf(Load(meta), p)
    /\ pc = "idle" =>
          \A p \in failed \cap DOMAIN fs : ShouldReindex(fs, Load(meta), p)

\* The text holds this one-piece line.
HasLine(text, line) == \E i \in 1..Len(text) : <<text[i]>> = line

\* The text holds these lines, one after the other.
HasLines(text, lines) ==
    LET all == Split(text)
    IN  \E i \in 0..(Len(all) - Len(lines)) :
            SubSeq(all, i + 1, i + Len(lines)) = lines

\* C11: when a file of the directory cannot be read and parsed, the report
\* still holds a block for every file of the directory, the failing file's
\* block holds the error placeholder, every other file's block holds its
\* exports, and the pass goes on to write the report and to record.
C11_FailureIsolated ==
    [][ (pc = "dirs" /\ pc' = "record") =>
          LET files == files_by_dir[Head(todo)]
          IN  /\ \A p \in Elems(files) :
                    /\ HasBlock(content', p)
                    /\ ~CanRead(fs, p) => HasLine(content', ErrorLine(p))
                    /\ CanRead(fs, p) =>
                          /\ ~HasLine(content', ErrorLine(p))
                          /\ HasLines(content',
                                Split(FormatMarkdown(Parse(fs[p].size))))
              /\ written_files' # <<>>
              /\ artifacts'[written_files'[1]] # <<>>
              /\ todo' = todo ]_vars

\* A report written for a directory with one unreadable file and one
\* readable one.
C11_Witness ==
    /\ pc = "record"
    /\ \E p, q \in Elems(files_by_dir[Head(todo)]) :
          /\ p \in failed /\ q \notin failed
          /\ HasLine(content, ErrorLine(p))
          /\ HasBlock(content, q)

\* C12: whenever the store file changes, a reader that loads it afterwards
\* gets either everything the manager held when it saved or, if the save
\* did not complete, everything the file held before.
C12_AllOrNothing ==
    [][ meta' # meta =>
          \/ Load(meta') = data
          \/ Load(meta') = Load(meta) ]_vars

\* C13: a run that finds the store file corrupted does not go on to replace
\* it: the file is never rewritten from a manager that could not load it.
C13_CorruptStoreFatal ==
    [][ meta.state = "corrupt" => meta' = meta ]_vars

\* ========================================================= registry claims
\* The positions in the registry of the parsers whose extensions include
\* the (lower-cased) suffix of p.
Matching(registry, p) ==
    {i \in 1..Len(registry) : Lower(Suffix(p)) \in registry[i].extensions}

\* C14: get_parser returns the earliest-registered parser whose extensions
\* include the file's (lower-cased) suffix, none when no registered parser
\* has it, and leaves the registry as it was; collect_files keeps exactly
\* the files of the listing whose suffix some registered parser has, in
\* listing order, so a file with an unregistered suffix is in no file list.
C14_RegistryResolution ==
    [][ /\ ret'.op = "get_parser" =>
              LET p == CHOOSE x \in ret'.arg : TRUE
                  m == Matching(parsers, p)
              IN  /\ parsers' = parsers
                  /\ m = {} => ret'.val = NoParser
                  /\ m # {} =>
                        ret'.val = parsers[CHOOSE i \in m : \A j \in m : i <= j]
        /\ ret'.op = "collect_files" =>
              LET names == ret'.arg
                  kept == {i \in DOMAIN names : Matching(parsers, names[i]) # {}}
              IN  /\ parsers' = parsers
                  /\ Len(ret'.val) = Cardinality(kept)
                  /\ \A i \in kept :
                        ret'.val[Cardinality({j \in kept : j <= i})] = names[i]
      ]_vars

\* A file that two registered parsers can parse, resolved to the one that
\* was registered first.
C14_Witness ==
    /\ ret.op = "get_parser"
    /\ \E p \in ret.arg : \E i, j \in Matching(parsers, p) :
          /\ i < j
          /\ parsers[i] # parsers[j]
          /\ ret.val = parsers[i]

\* =========================================================== parser claims
\* The special methods the visibility rule lets through: construction,
\* string conversion, equality, hashing, call.
AllowListed == {"__init__", "__str__", "__repr__", "__eq__", "__hash__", "__call__"}

\* C15: no export is for a symbol (function, method or class) whose name
\* begins with an underscore, unless the name is one of the allow-listed
\* special methods; a source with computeTotal and _helper gives exactly
\* one export, for computeTotal.
C15_VisibilityFiltering ==
    ret.op = "extract_definitions" =>
        /\ \A i \in 1..Len(ret.val) :
              StartsWith(ret.val[i].name, "_") => ret.val[i].name \in AllowListed
        /\ source = << [indent |-> 0, kind |-> "def", name |-> "computeTotal"],
                       [indent |-> 0, kind |-> "def", name |-> "_helper"] >>
              => ret.val = <<ExportEntry("", "def", "computeTotal")>>

\* The artifacts the current run has written.
WrittenThisRun == UNION {Elems(passes[d].written) : d \in DOMAIN passes}

\* C18: when a full (or forced) run has completed, every artifact in the
\* directories folder, and so every artifact the main index lists, was
\* written by that run.
C18_NoStaleArtifacts ==
    (pc = "idle" /\ runs >= 1 /\ meta.state = "ok" /\ ~(update /\ ~force)) =>
        /\ DOMAIN artifacts \subseteq WrittenThisRun
        /\ nav \subseteq WrittenThisRun

\* C19: when a run has completed, every file the run read and parsed whose
\* (mtime, size) on disk is no longer the one it had when it was read is
\* flagged by should_reindex for the next run: the fingerprint stored in its
\* record is the one of the content that was parsed.
C19_NoLostUpdate ==
    (pc = "idle" /\ runs >= 1 /\ meta.state = "ok") =>
        \A d \in DOMAIN passes : \A p \in DOMAIN passes[d].read :
            (p \in DOMAIN fs /\ Fingerprint(fs, p) # passes[d].read[p])
                => ShouldReindex(fs, Load(meta), p)

\* The exports after the first j lines of the source (the loop reads the
\* lines in order and never looks ahead).
ExportsUpTo(j) == ExtractDefinitions(SubSeq(source, 1, j))

\* Line j made the loop append an entry.
Emits(j) == Len(ExportsUpTo(j)) > Len(ExportsUpTo(j - 1))

EmittedAt(j) == ExportsUpTo(j)[Len(ExportsUpTo(j))]

\* The line whose block holds line j: the last line before j that is not
\* blank and is indented less (0 when there is none).
Parent(j) ==
    LET outer == {i \in 1..(j - 1) : /\ source[i].kind # "blank"
                                      /\ source[i].indent < source[j].indent}
    IN  IF outer = {} THEN 0 ELSE CHOOSE i \in outer : \A k \in outer : k <= i

\* The class, function or module (0) that line j belongs to: the nearest
\* enclosing line that is not a plain statement.
RECURSIVE Owner(_)
Owner(j) ==
    IF Parent(j) = 0 THEN 0
    ELSE IF source[Parent(j)].kind = "stmt" THEN Owner(Parent(j))
    ELSE Parent(j)

\* The top-level class lines before line j.
ClassesBefore(j) ==
    {i \in 1..(j - 1) : source[i].kind = "class" /\ source[i].indent = 0}

\* C21: every indented entry of exports comes from a function defined
\* directly in the body of a top-level class, the one whose entry is the
\* last class entry before it (not from a function nested in a method, nor
\* from a method of a nested class), and every function at indentation 0
\* that is exported is exported unindented.
C21_MethodAssociation ==
    ret.op = "extract_definitions" =>
        /\ ret.val = ExportsUpTo(Len(source))
        /\ \A j \in 1..Len(source) :
              /\ (Emits(j) /\ EmittedAt(j).marker = "  ") =>
                    /\ source[j].kind = "def"
                    /\ Owner(j) \in ClassesBefore(j)
                    /\ \A i \in ClassesBefore(j) : i <= Owner(j)
              /\ (Emits(j) /\ source[j].kind = "def" /\ source[j].indent = 0) =>
                    EmittedAt(j) = ExportEntry("", "def", source[j].name)

====
